---- MODULE Spec2Model ----
(***************************************************************************)
(* State-machine model of screensaver.js: the matrix rain, the code        *)
(* chunks, the node network with its packets, the hack events, the frame   *)
(* loop and the image-gated start.                                         *)
(*                                                                         *)
(* Numbers are fixed-point integers.  Time is counted in ticks of 1/60 s   *)
(* (one 60 Hz frame), so that                                              *)
(*   - a timer or cooldown of s seconds is 60*s ticks,                     *)
(*   - Node.hackedAlpha is kept in units of 1/300 (0.2/s = 1 unit/tick),   *)
(*   - Packet.t is kept in units of 1/60000 (speed*dt/1000 = speed units   *)
(*     per tick),                                                          *)
(*   - MatrixColumn.y and CodeChunk.x are kept in units of 1/60 px         *)
(*     (speed*dt = speed units per tick),                                  *)
(*   - CodeChunk.alpha is kept in units of 1/600 (0.5/s = 5 units/tick,    *)
(*     0.3/s = 3 units/tick),                                              *)
(*   - node coordinates are kept in units of 1/1000 px.                    *)
(* A value of Math.random() is a pair <<num, den>> with 0 <= num < den.    *)
(* An operation that draws random numbers is an operator that yields the   *)
(* SET of its possible results, given the sets its draws are taken from.   *)
(***************************************************************************)
EXTENDS Integers, Sequences, FiniteSets, TLC

VARIABLES
  canvas,      \* [width, height] of the drawing surface
  bgImage,     \* "absent" (null element), "loading", "loaded" or "broken"
  skullImage,  \* the same, for the skull overlay
  matrix,      \* MatrixRainSystem: [columns, spacing]
  codeChunks,  \* CodeChunkSystem: [chunks, timer], with removed and spawned
  network,     \* NodeNetworkSystem: [nodes, links, packets, normalTrafficTimer]
  nodeHeap,    \* the Node objects ever constructed; a node reference is an index
  pktHeap,     \* the live Packet objects, by reference
  hacks,       \* HackSystem: [events, cooldown], with created, completed, since
  lastTime,    \* timestamp of the previous frame, 0 before the first
  remaining,   \* startWhenReady's counter of images still awaited
  listeners,   \* the images that carry startWhenReady's load/error listeners
  rafPending,  \* frame callbacks requested and not yet run
  call,        \* observation: the handler that ran last, with its arguments
  frame,       \* observation: what the last draw() rendered
  stats        \* observation: counters of frames, resizes, calls and starts,
               \* and of resizes that repeat the resize handled just before

vars == <<canvas, bgImage, skullImage, matrix, codeChunks, network, nodeHeap,
          pktHeap, hacks, lastTime, remaining, listeners, rafPending, call,
          frame, stats>>

-----------------------------------------------------------------------------
(* Units *)

PX == 60            \* MatrixColumn.y and CodeChunk.x: units per pixel
AlphaOne == 300     \* Node.hackedAlpha = 1.0
TOne == 60000       \* Packet.t = 1
ChunkAlphaOne == 600 \* CodeChunk.alpha = 1.0

Undefined == 0      \* null / undefined reference (references start at 1)

Min(a, b) == IF a < b THEN a ELSE b
Max(a, b) == IF a > b THEN a ELSE b

\* Math.random() * v for the draw r = <<num, den>>, rounded down
Frac(r, v) == (r[1] * v) \div r[2]

\* Math.floor(Math.random() * n) for the draw r
FloorOf(r, n) == (r[1] * n) \div r[2]

\* the sequences that take one element from each set of the sequence ss
RECURSIVE SeqChoices(_)
SeqChoices(ss) ==
  IF ss = <<>> THEN {<<>>}
  ELSE {<<h>> \o t : h \in Head(ss), t \in SeqChoices(Tail(ss))}

lerp(a, b, t) == a + ((b - a) * t) \div TOne

clamp(v, a, b) == Max(a, Min(b, v))

-----------------------------------------------------------------------------
(* Matrix Rain System *)

\* new MatrixColumn(x, height)
MatrixColumn(x, height, ry, rs) ==
  [x |-> x, y |-> -Frac(ry, height * PX), speed |-> 50 + Frac(rs, 150)]

\* MatrixColumn.update without the wrap
MatrixColumn_update_NoWrap(col, dt, height, RY) ==
  {[col EXCEPT !.y = col.y + col.speed * dt]}

\* MatrixColumn.update(dt, height): the possible columns afterwards
MatrixColumn_update(col, dt, height, RY) ==
  LET y1 == col.y + col.speed * dt
  IN IF y1 > (height + 100) * PX
     THEN {[col EXCEPT !.y = -Frac(ry, height * PX)] : ry \in RY}
     ELSE {[col EXCEPT !.y = y1]}

\* the loop of MatrixRainSystem.reset from x on: the possible column lists
RECURSIVE reset_loop(_, _, _, _, _, _)
reset_loop(x, spacing, width, height, RY, RS) ==
  IF x < width
  THEN {<<c>> \o rest :
          c \in {MatrixColumn(x, height, ry, rs) : ry \in RY, rs \in RS},
          rest \in reset_loop(x + spacing, spacing, width, height, RY, RS)}
  ELSE {<<>>}

\* the loop with x <= width as its condition
MatrixRainSystem_reset_Inclusive(sys, width, height, RY, RS) ==
  {[sys EXCEPT !.columns = cs] :
     cs \in reset_loop(0, sys.spacing, width + 1, height, RY, RS)}

\* reset without this.columns = []: the new columns are added to the old
MatrixRainSystem_reset_Append(sys, width, height, RY, RS) ==
  {[sys EXCEPT !.columns = sys.columns \o cs] :
     cs \in reset_loop(0, sys.spacing, width, height, RY, RS)}

\* MatrixRainSystem.reset(width, height)
MatrixRainSystem_reset(sys, width, height, RY, RS) ==
  {[sys EXCEPT !.columns = cs] :
     cs \in reset_loop(0, sys.spacing, width, height, RY, RS)}

\* new MatrixRainSystem(width, height)
MatrixRainSystem(width, height, RY, RS) ==
  MatrixRainSystem_reset([columns |-> <<>>, spacing |-> 16], width, height, RY, RS)

\* MatrixRainSystem.update(dt, width, height)
MatrixRainSystem_update(sys, dt, width, height, RY) ==
  {[sys EXCEPT !.columns = cs] :
     cs \in SeqChoices([i \in 1..Len(sys.columns) |->
                          MatrixColumn_update(sys.columns[i], dt, height, RY)])}

-----------------------------------------------------------------------------
(* Code Chunk System *)

\* new CodeChunk(width, height, textLines, direction); holdTime is not set
\* by the constructor and is written 0 until update sets it
CodeChunk(width, height, textLines, direction, rs, ry) ==
  [direction |-> direction,
   speed     |-> 20 + Frac(rs, 40),
   alpha     |-> 0,
   state     |-> "fadeIn",
   y         |-> 50 + Frac(ry, height - 100),
   x         |-> IF direction = 1 THEN -300 * PX ELSE (width + 300) * PX,
   textLines |-> textLines,
   holdTime  |-> 0]

\* CodeChunk.update without this.alpha = 0.8 on reaching 0.8
CodeChunk_update_NoClamp(c, dt, RH) ==
  LET c1 == [c EXCEPT !.x = c.x + c.direction * c.speed * dt]
  IN CASE c.state = "fadeIn" ->
            LET a1 == c1.alpha + dt * 5
            IN IF a1 >= (8 * ChunkAlphaOne) \div 10
               THEN {[c1 EXCEPT !.alpha = a1,
                                !.state = "hold",
                                !.holdTime = 120 + Frac(rh, 180)] : rh \in RH}
               ELSE {[c1 EXCEPT !.alpha = a1]}
       [] c.state = "hold" ->
            LET h1 == c1.holdTime - dt
            IN {[c1 EXCEPT !.holdTime = h1,
                           !.state = IF h1 <= 0 THEN "fadeOut" ELSE "hold"]}
       [] c.state = "fadeOut" ->
            {[c1 EXCEPT !.alpha = c1.alpha - dt * 3]}
       [] OTHER -> {c1}

\* CodeChunk.update(dt): the possible chunks afterwards
CodeChunk_update(c, dt, RH) ==
  LET c1 == [c EXCEPT !.x = c.x + c.direction * c.speed * dt]
  IN CASE c.state = "fadeIn" ->
            LET a1 == c1.alpha + dt * 5
            IN IF a1 >= (8 * ChunkAlphaOne) \div 10
               THEN {[c1 EXCEPT !.alpha = (8 * ChunkAlphaOne) \div 10,
                                !.state = "hold",
                                !.holdTime = 120 + Frac(rh, 180)] : rh \in RH}
               ELSE {[c1 EXCEPT !.alpha = a1]}
       [] c.state = "hold" ->
            LET h1 == c1.holdTime - dt
            IN {[c1 EXCEPT !.holdTime = h1,
                           !.state = IF h1 <= 0 THEN "fadeOut" ELSE "hold"]}
       [] c.state = "fadeOut" ->
            {[c1 EXCEPT !.alpha = c1.alpha - dt * 3]}
       [] OTHER -> {c1}

\* isDead with || in place of &&
CodeChunk_isDead_Or(c, width) ==
  c.alpha <= 0 \/ (c.x < -400 * PX \/ c.x > (width + 400) * PX)

\* isDead with && in place of || between the two sides
CodeChunk_isDead_BothSides(c, width) ==
  c.alpha <= 0 /\ (c.x < -400 * PX /\ c.x > (width + 400) * PX)

\* CodeChunk.isDead(width)
CodeChunk_isDead(c, width) ==
  c.alpha <= 0 /\ (c.x < -400 * PX \/ c.x > (width + 400) * PX)

\* new CodeChunkSystem().  removed and spawned are for observation only: what
\* the last update's filter dropped, and the chunks constructed so far (a
\* chunk carries its number in order of construction as serial)
CodeChunkSystem ==
  [chunks |-> <<>>, timer |-> 0, removed |-> <<>>, spawned |-> 0]

\* CodeChunkSystem.randomSnippet(): the index of the snippet drawn
randomSnippet(r) == FloorOf(r, 4) + 1

\* CodeChunkSystem.update(dt, width, height): the possible systems afterwards.
\* D gives the sets the draws are taken from.
CodeChunkSystem_update(sys, dt, width, height, D) ==
  LET t1 == sys.timer - dt
      spawned ==
        IF t1 <= 0
        THEN {[sys EXCEPT !.timer = 300 + Frac(rt, 300),
                          !.spawned = sys.spawned + 1,
                          !.chunks = Append(sys.chunks,
                             CodeChunk(width, height, randomSnippet(rn),
                                       IF 2 * rd[1] > rd[2] THEN 1 ELSE -1,
                                       rs, ry)
                               @@ [serial |-> sys.spawned + 1])] :
                rt \in D.chunkTimer, rd \in D.chunkDir, rn \in D.chunkSnippet,
                rs \in D.chunkSpeed, ry \in D.chunkY}
        ELSE {[sys EXCEPT !.timer = t1]}
  IN UNION {
       {[s EXCEPT !.chunks = SelectSeq(cs, LAMBDA c : ~CodeChunk_isDead(c, width)),
                  !.removed = SelectSeq(cs, LAMBDA c : CodeChunk_isDead(c, width))] :
          cs \in SeqChoices([i \in 1..Len(s.chunks) |->
                               CodeChunk_update(s.chunks[i], dt, D.chunkHold)])} :
       s \in spawned}

-----------------------------------------------------------------------------
(* Node Network System *)
(* The operators below work on a memory M = [net, node, pkt, hacks]: the    *)
(* NodeNetworkSystem, the Node objects, the Packet objects, the HackSystem. *)

Range(s) == {s[i] : i \in 1..Len(s)}

\* new Node(id, x, y, type)
Node(id, x, y, type) ==
  [id |-> id, x |-> x, y |-> y, type |-> type, hackedAlpha |-> 0]

\* Node.update without the floor at 0
Node_update_NoFloor(n, dt) ==
  IF n.hackedAlpha > 0
  THEN [n EXCEPT !.hackedAlpha = n.hackedAlpha - dt]
  ELSE n

\* Node.update(dt)
Node_update(n, dt) ==
  IF n.hackedAlpha > 0
  THEN LET a == n.hackedAlpha - dt
       IN [n EXCEPT !.hackedAlpha = IF a < 0 THEN 0 ELSE a]
  ELSE n

\* new Link(from, to): from and to are node references
Link(from, to) == [from |-> from, to |-> to]

\* new Packet(link, color, speed)
Packet(link, color, speed) ==
  [link |-> link, t |-> 0, speed |-> speed, color |-> color]

\* Packet.update(dt)
Packet_update(p, dt) == [p EXCEPT !.t = p.t + p.speed * dt]

\* isDone with > in place of >=
Packet_isDone_Strict(p) == p.t > TOne

\* Packet.isDone()
Packet_isDone(p) == p.t >= TOne

\* this.nodes.find(n => n.id === id): the first such node, or undefined
find(nodes, heap, id) ==
  LET hits == {i \in 1..Len(nodes) : heap[nodes[i]].id = id}
  IN IF hits = {} THEN Undefined
     ELSE nodes[CHOOSE i \in hits : \A j \in hits : i <= j]

\* the filter without n.id !== 'hacker'
nonHackerNonRouter_KeepHacker(nodes, heap) ==
  SelectSeq(nodes, LAMBDA n : heap[n].id # "router")

\* this.nodes.filter(n => n.id !== 'hacker' && n.id !== 'router')
nonHackerNonRouter(nodes, heap) ==
  SelectSeq(nodes, LAMBDA n : heap[n].id # "router" /\ heap[n].id # "hacker")

\* a reference for a new Packet object: the least one not in use
NewRef(heap) == CHOOSE p \in 1..(Cardinality(DOMAIN heap) + 1) : p \notin DOMAIN heap

\* NodeNetworkSystem.setupLayout(width, height): nine new Node objects
\* replace this.nodes, eight new Links replace this.links
setupLayout(M, width, height) ==
  LET cx == width * 450
      cy == height * 350
      sx == width * 250
      sy == height * 250
      new == << Node("hacker", width * 720, height * 650, "hacker"),
                Node("server", cx - (sx * 4) \div 10, cy - (sy * 4) \div 10, "server"),
                Node("desktop1", cx, cy - (sy * 6) \div 10, "desktop"),
                Node("desktop2", cx + (sx * 4) \div 10, cy - (sy * 3) \div 10, "desktop"),
                Node("router", cx, cy, "router"),
                Node("laptop1", cx - (sx * 5) \div 10, cy + (sy * 2) \div 10, "laptop"),
                Node("phone", cx + (sx * 3) \div 10, cy + (sy * 3) \div 10, "phone"),
                Node("iot", cx - (sx * 1) \div 10, cy + (sy * 5) \div 10, "iot"),
                Node("cloud", cx + (sx * 5) \div 10, cy - (sy * 7) \div 10, "cloud") >>
      base  == Len(M.node)
      heap  == M.node \o new
      nodes == [i \in 1..Len(new) |-> base + i]
      get(id) == find(nodes, heap, id)
  IN [M EXCEPT
        !.node = heap,
        !.net.nodes = nodes,
        !.net.links = << Link(get("router"), get("server")),
                         Link(get("router"), get("desktop1")),
                         Link(get("router"), get("desktop2")),
                         Link(get("router"), get("laptop1")),
                         Link(get("router"), get("phone")),
                         Link(get("router"), get("iot")),
                         Link(get("router"), get("cloud")),
                         Link(get("hacker"), get("router")) >>]

\* sendPacket with && in place of || in its guard
sendPacket_And(M, fromId, toId, color, speed) ==
  LET from == find(M.net.nodes, M.node, fromId)
      to   == find(M.net.nodes, M.node, toId)
      p    == NewRef(M.pkt)
  IN IF from = Undefined /\ to = Undefined THEN M
     ELSE [M EXCEPT !.pkt = M.pkt @@ (p :> Packet(Link(from, to), color, speed)),
                    !.net.packets = Append(M.net.packets, p)]

\* NodeNetworkSystem.sendPacket(fromId, toId, color, speed)
sendPacket(M, fromId, toId, color, speed) ==
  LET from == find(M.net.nodes, M.node, fromId)
      to   == find(M.net.nodes, M.node, toId)
      p    == NewRef(M.pkt)
  IN IF from = Undefined \/ to = Undefined THEN M
     ELSE [M EXCEPT !.pkt = M.pkt @@ (p :> Packet(Link(from, to), color, speed)),
                    !.net.packets = Append(M.net.packets, p)]

\* NodeNetworkSystem.update(dt, width, height): the possible memories afterwards
NodeNetworkSystem_update(M, dt, D) ==
  LET M1 == [M EXCEPT
               !.node = [i \in 1..Len(M.node) |->
                           IF i \in Range(M.net.nodes)
                           THEN Node_update(M.node[i], dt) ELSE M.node[i]],
               !.net.normalTrafficTimer = M.net.normalTrafficTimer - dt]
      router == find(M1.net.nodes, M1.node, "router")
      others == nonHackerNonRouter(M1.net.nodes, M1.node)
      traffic(rt, rg, r1, r2) ==
        LET M2 == [M1 EXCEPT !.net.normalTrafficTimer = 18 + Frac(rt, 42)]
            target == others[FloorOf(rg, Len(others)) + 1]
        IN IF router # Undefined /\ Len(others) > 0
           THEN sendPacket(
                  sendPacket(M2, M2.node[router].id, M2.node[target].id,
                             "#00ff88", 120 + Frac(r1, 120)),
                  M2.node[target].id, M2.node[router].id,
                  "#00ff88", 120 + Frac(r2, 120))
           ELSE M2
      sent == IF M1.net.normalTrafficTimer <= 0
              THEN {traffic(rt, rg, r1, r2) :
                      rt \in D.trafficTimer, rg \in D.trafficTarget,
                      r1 \in D.trafficSpeed, r2 \in D.trafficSpeed}
              ELSE {M1}
      move(m) ==
        LET pk == [p \in DOMAIN m.pkt |->
                     IF p \in Range(m.net.packets)
                     THEN Packet_update(m.pkt[p], dt) ELSE m.pkt[p]]
        IN [m EXCEPT !.pkt = pk,
                     !.net.packets = SelectSeq(m.net.packets,
                                        LAMBDA p : ~Packet_isDone(pk[p]))]
  IN {move(m) : m \in sent}

\* new NodeNetworkSystem(width, height), in a memory with no objects yet
NodeNetworkSystem(width, height) ==
  setupLayout([net   |-> [nodes |-> <<>>, links |-> <<>>, packets |-> <<>>,
                          normalTrafficTimer |-> 0],
               node  |-> <<>>,
               pkt   |-> <<>>,
               hacks |-> <<>>],
              width, height)

-----------------------------------------------------------------------------
(* Hack System *)

\* new HackEvent(network).  serial and age are for observation only: the
\* number of the event in order of creation, and the dt its update calls have
\* been passed in total.
HackEvent(M, rg) ==
  LET targets == nonHackerNonRouter(M.net.nodes, M.node)
  IN [state   |-> "prepare",
      timer   |-> 0,
      hacker  |-> find(M.net.nodes, M.node, "hacker"),
      targets |-> targets,
      target  |-> IF Len(targets) = 0 THEN Undefined
                  ELSE targets[FloorOf(rg, Len(targets)) + 1],
      packet  |-> Undefined,
      serial  |-> M.hacks.created + 1,
      age     |-> 0]

\* the prepare branch with >= in place of >
HackEvent_prepare_AtHalf(M, e1) ==
  [mem |-> IF e1.hacker # Undefined
           THEN [M EXCEPT !.node[e1.hacker].hackedAlpha = AlphaOne]
           ELSE M,
   ev  |-> IF e1.timer >= 30
           THEN [e1 EXCEPT !.state = "launch", !.timer = 0]
           ELSE e1]

\* HackEvent.update, state 'prepare' (e1 is the event with its timer advanced)
HackEvent_prepare(M, e1) ==
  [mem |-> IF e1.hacker # Undefined
           THEN [M EXCEPT !.node[e1.hacker].hackedAlpha = AlphaOne]
           ELSE M,
   ev  |-> IF e1.timer > 30
           THEN [e1 EXCEPT !.state = "launch", !.timer = 0]
           ELSE e1]

\* the launch branch without this.state = 'inFlight'
HackEvent_launch_Stay(M, e1) ==
  LET p == NewRef(M.pkt)
  IN [mem |-> [M EXCEPT
                 !.pkt = M.pkt @@
                   (p :> Packet(Link(e1.hacker, e1.target), "#ff0066", 260)),
                 !.net.packets = Append(M.net.packets, p)],
      ev  |-> [e1 EXCEPT !.packet = p]]

\* HackEvent.update, state 'launch'
HackEvent_launch(M, e1) ==
  LET p == NewRef(M.pkt)
  IN [mem |-> [M EXCEPT
                 !.pkt = M.pkt @@
                   (p :> Packet(Link(e1.hacker, e1.target), "#ff0066", 260)),
                 !.net.packets = Append(M.net.packets, p)],
      ev  |-> [e1 EXCEPT !.packet = p, !.state = "inFlight"]]

\* HackEvent.update, state 'inFlight'.  The target is never undefined: every
\* layout has seven eligible nodes.
HackEvent_inFlight(M, e1) ==
  IF e1.packet # Undefined /\ Packet_isDone(M.pkt[e1.packet])
  THEN [mem |-> [M EXCEPT !.node[e1.target].hackedAlpha = AlphaOne],
        ev  |-> [e1 EXCEPT !.state = "impact", !.timer = 0]]
  ELSE [mem |-> M, ev |-> e1]

\* the impact branch with >= in place of >
HackEvent_impact_AtLimit(M, e1) ==
  [mem |-> M,
   ev  |-> IF e1.timer >= 90 THEN [e1 EXCEPT !.state = "done"] ELSE e1]

\* HackEvent.update, state 'impact'
HackEvent_impact(M, e1) ==
  [mem |-> M,
   ev  |-> IF e1.timer > 90 THEN [e1 EXCEPT !.state = "done"] ELSE e1]

\* HackEvent.update(dt): the memory and the event afterwards
HackEvent_update(M, e, dt) ==
  LET e1 == [e EXCEPT !.timer = e.timer + dt, !.age = e.age + dt]
  IN CASE e.state = "prepare"  -> HackEvent_prepare(M, e1)
       [] e.state = "launch"   -> HackEvent_launch(M, e1)
       [] e.state = "inFlight" -> HackEvent_inFlight(M, e1)
       [] e.state = "impact"   -> HackEvent_impact(M, e1)
       [] OTHER -> [mem |-> M, ev |-> e1]

\* HackEvent.isDone()
HackEvent_isDone(e) == e.state = "done"

\* new HackSystem with its cooldown starting at 5 s
HackSystem_CooldownFive ==
  [events |-> <<>>, cooldown |-> 300, created |-> 0, completed |-> 0,
   since |-> 0]

\* new HackSystem(network).  created, completed and since are for observation
\* only: the events constructed so far, the events removed as done so far, and
\* the dt passed to update since the call that constructed the latest event.
HackSystem ==
  [events |-> <<>>, cooldown |-> 0, created |-> 0, completed |-> 0,
   since |-> 0]

\* this.events.forEach(e => e.update(dt)), from event i on
RECURSIVE forEachEvent(_, _, _)
forEachEvent(M, i, dt) ==
  IF i > Len(M.hacks.events) THEN M
  ELSE LET r == HackEvent_update(M, M.hacks.events[i], dt)
       IN forEachEvent([r.mem EXCEPT !.hacks.events[i] = r.ev], i + 1, dt)

\* HackSystem.update with this.cooldown += ... in place of this.cooldown = ...
HackSystem_update_Carry(M, dt, D) ==
  LET c1 == M.hacks.cooldown - dt
      created ==
        IF c1 <= 0
        THEN {[M EXCEPT !.hacks.cooldown = c1 + 300 + Frac(rc, 600),
                        !.hacks.events = Append(M.hacks.events, HackEvent(M, rg)),
                        !.hacks.created = M.hacks.created + 1,
                        !.hacks.since = 0] :
                rc \in D.cooldown, rg \in D.hackTarget}
        ELSE {[M EXCEPT !.hacks.cooldown = c1,
                        !.hacks.since = M.hacks.since + dt]}
      finish(m) ==
        LET kept == SelectSeq(m.hacks.events, LAMBDA e : ~HackEvent_isDone(e))
        IN [m EXCEPT !.hacks.events = kept,
                     !.hacks.completed =
                        m.hacks.completed + Len(m.hacks.events) - Len(kept)]
  IN {finish(forEachEvent(m, 1, dt)) : m \in created}

\* HackSystem.update(dt): the possible memories afterwards
HackSystem_update(M, dt, D) ==
  LET c1 == M.hacks.cooldown - dt
      created ==
        IF c1 <= 0
        THEN {[M EXCEPT !.hacks.cooldown = 300 + Frac(rc, 600),
                        !.hacks.events = Append(M.hacks.events, HackEvent(M, rg)),
                        !.hacks.created = M.hacks.created + 1,
                        !.hacks.since = 0] :
                rc \in D.cooldown, rg \in D.hackTarget}
        ELSE {[M EXCEPT !.hacks.cooldown = c1,
                        !.hacks.since = M.hacks.since + dt]}
      finish(m) ==
        LET kept == SelectSeq(m.hacks.events, LAMBDA e : ~HackEvent_isDone(e))
        IN [m EXCEPT !.hacks.events = kept,
                     !.hacks.completed =
                        m.hacks.completed + Len(m.hacks.events) - Len(kept)]
  IN {finish(forEachEvent(m, 1, dt)) : m \in created}

\* Packet objects that nothing refers to any more are dropped
collect(M) ==
  LET live == Range(M.net.packets) \cup
              {M.hacks.events[i].packet : i \in 1..Len(M.hacks.events)}
  IN [M EXCEPT !.pkt = [p \in (DOMAIN M.pkt) \cap live |-> M.pkt[p]]]

-----------------------------------------------------------------------------
(* Drawing *)

\* img.complete: true of an image that has loaded and of one that has failed
complete(img) == img \in {"loaded", "broken"}

\* drawBackground(ctx): the image when there is one and it is complete,
\* else the solid fill
drawBackground(bg) ==
  IF bg # "absent" /\ complete(bg) THEN "image" ELSE "solid"

\* Node.draw(ctx): whether the skull was drawn, at which alpha, and the error
\* raised if any.  skullImage.complete is read whenever hackedAlpha > 0, and
\* reading it of a null skullImage is a TypeError.
Node_draw(n, skull) ==
  IF n.hackedAlpha > 0
  THEN IF skull = "absent"
       THEN [skull |-> FALSE, alpha |-> 0, error |-> "TypeError"]
       ELSE IF complete(skull)
            THEN [skull |-> TRUE,
                  alpha |-> clamp(n.hackedAlpha, 0, AlphaOne),
                  error |-> "none"]
            ELSE [skull |-> FALSE, alpha |-> 0, error |-> "none"]
  ELSE [skull |-> FALSE, alpha |-> 0, error |-> "none"]

\* Packet.draw(ctx): the t read and the point drawn
Packet_draw(p, heap) ==
  [t |-> p.t,
   x |-> lerp(heap[p.link.from].x, heap[p.link.to].x, p.t),
   y |-> lerp(heap[p.link.from].y, heap[p.link.to].y, p.t)]

\* draw(): the frame rendered.  bg is the background drawn, packets the
\* packets drawn, skulls the ids of the nodes drawn with the overlay, and error
\* the error that ended draw(), "none" when it returned.  The nodes are drawn
\* last and in order, up to the first that raises.
draw(bg, skull, M) ==
  LET drawn == [i \in 1..Len(M.net.nodes) |->
                  Node_draw(M.node[M.net.nodes[i]], skull)]
      bad == {i \in 1..Len(drawn) : drawn[i].error # "none"}
  IN [bg |-> drawBackground(bg),
      packets |-> [i \in 1..Len(M.net.packets) |->
                     Packet_draw(M.pkt[M.net.packets[i]], M.node)],
      skulls |-> {M.node[M.net.nodes[i]].id :
                    i \in {j \in 1..Len(drawn) :
                             drawn[j].skull /\ \A k \in bad : j < k}},
      error |-> IF bad = {} THEN "none"
                ELSE drawn[CHOOSE i \in bad : \A j \in bad : i <= j].error]

-----------------------------------------------------------------------------
(* Main loop, start and resize *)

\* the memory the network and hack operators work on
Mem == [net |-> network, node |-> nodeHeap, pkt |-> pktHeap, hacks |-> hacks]

SetMem(M) ==
  /\ network' = M.net
  /\ nodeHeap' = M.node
  /\ pktHeap' = M.pkt
  /\ hacks' = M.hacks

\* update(dt): the four systems in turn; the possible results
update(dt, D) ==
  {[matrix |-> m, codeChunks |-> c, mem |-> collect(h)] :
     m \in MatrixRainSystem_update(matrix, dt, canvas.width, canvas.height, D.rainY),
     c \in CodeChunkSystem_update(codeChunks, dt, canvas.width, canvas.height, D),
     h \in UNION {HackSystem_update(n, dt, D) :
                    n \in NodeNetworkSystem_update(Mem, dt, D)}}

\* loop(timestamp): one frame callback.  An error raised by draw() leaves the
\* callback before requestAnimationFrame(loop).
loop(timestamp, D) ==
  LET dt == timestamp - (IF lastTime = 0 THEN timestamp ELSE lastTime)
  IN /\ rafPending > 0
     /\ lastTime' = timestamp
     /\ \E u \in update(dt, D) :
          /\ matrix' = u.matrix
          /\ codeChunks' = u.codeChunks
          /\ SetMem(u.mem)
          /\ frame' = draw(bgImage, skullImage, u.mem)
     /\ rafPending' = rafPending - 1 + (IF frame'.error = "none" THEN 1 ELSE 0)
     /\ call' = [op |-> "loop", from |-> "", to |-> ""]
     /\ stats' = [stats EXCEPT !.frames = @ + 1]
     /\ UNCHANGED <<canvas, bgImage, skullImage, remaining, listeners>>

\* startWhenReady(): the counter, the frame requests made and the listeners
\* added, for the two images as they are when the script runs
startWhenReady(bg, skull) ==
  LET imgs == << [name |-> "bgImage", img |-> bg],
                 [name |-> "skullImage", img |-> skull] >>
      s0 == [remaining |-> Len(SelectSeq(imgs, LAMBDA i : i.img # "absent")),
             raf |-> 0, listeners |-> {}]
      each(s, i) ==
        IF i.img = "absent" THEN s
        ELSE IF complete(i.img)
             THEN [s EXCEPT !.remaining = @ - 1,
                            !.raf = @ + (IF s.remaining - 1 = 0 THEN 1 ELSE 0)]
             ELSE [s EXCEPT !.listeners = @ \cup {i.name}]
  IN IF s0.remaining = 0 THEN [s0 EXCEPT !.raf = 1]
     ELSE each(each(s0, imgs[1]), imgs[2])

\* the 'load' or 'error' notification of an image that was loading: the image
\* becomes complete and the listener startWhenReady added, if any, runs
imageEvent(name, kind) ==
  /\ (IF name = "bgImage" THEN bgImage ELSE skullImage) = "loading"
  /\ bgImage' = IF name = "bgImage"
                THEN (IF kind = "load" THEN "loaded" ELSE "broken") ELSE bgImage
  /\ skullImage' = IF name = "skullImage"
                   THEN (IF kind = "load" THEN "loaded" ELSE "broken") ELSE skullImage
  /\ IF name \in listeners
     THEN /\ remaining' = remaining - 1
          /\ rafPending' = rafPending + (IF remaining' = 0 THEN 1 ELSE 0)
          /\ stats' = [stats EXCEPT !.starts = @ + (IF remaining' = 0 THEN 1 ELSE 0)]
     ELSE UNCHANGED <<remaining, rafPending, stats>>
  /\ call' = [op |-> kind, from |-> name, to |-> ""]
  /\ UNCHANGED <<canvas, matrix, codeChunks, network, nodeHeap, pktHeap, hacks,
                 lastTime, listeners, frame>>

\* the resize listeners with a network listener that also empties
\* this.packets
resize_DropPackets(width, height, D) ==
  /\ canvas' = [width |-> width, height |-> height]
  /\ matrix' \in MatrixRainSystem_reset(matrix, width, height, D.rainY, D.rainSpeed)
  /\ SetMem([setupLayout(Mem, width, height) EXCEPT !.net.packets = <<>>])
  /\ call' = [op |-> "resize", from |-> "", to |-> ""]
  /\ stats' = [stats EXCEPT
                 !.resizes = @ + 1,
                 !.repeats = @ + (IF call.op = "resize" /\ canvas' = canvas
                                  THEN 1 ELSE 0)]
  /\ UNCHANGED <<bgImage, skullImage, codeChunks, lastTime, remaining, listeners,
                 rafPending, frame>>

\* the three 'resize' listeners in the order they were added: resize(),
\* matrix.reset, network.setupLayout
resize(width, height, D) ==
  /\ canvas' = [width |-> width, height |-> height]
  /\ matrix' \in MatrixRainSystem_reset(matrix, width, height, D.rainY, D.rainSpeed)
  /\ SetMem(setupLayout(Mem, width, height))
  /\ call' = [op |-> "resize", from |-> "", to |-> ""]
  /\ stats' = [stats EXCEPT
                 !.resizes = @ + 1,
                 !.repeats = @ + (IF call.op = "resize" /\ canvas' = canvas
                                  THEN 1 ELSE 0)]
  /\ UNCHANGED <<bgImage, skullImage, codeChunks, lastTime, remaining, listeners,
                 rafPending, frame>>

\* window.__screensaver.network.sendPacket(fromId, toId) with the default
\* colour and speed
sendPacketCall(fromId, toId) ==
  /\ SetMem(sendPacket(Mem, fromId, toId, "#00ff88", 180))
  /\ call' = [op |-> "sendPacket", from |-> fromId, to |-> toId]
  /\ stats' = [stats EXCEPT !.sends = @ + 1]
  /\ UNCHANGED <<canvas, bgImage, skullImage, matrix, codeChunks, lastTime,
                 remaining, listeners, rafPending, frame>>

\* the state once the script has run to its end, for a window of one of the
\* given sizes and images in one of the given states
InitOf(Sizes, Images, D) ==
  /\ canvas \in Sizes
  /\ bgImage \in Images
  /\ skullImage \in Images
  /\ matrix \in MatrixRainSystem(canvas.width, canvas.height, D.rainY, D.rainSpeed)
  /\ codeChunks = CodeChunkSystem
  /\ LET M == [NodeNetworkSystem(canvas.width, canvas.height) EXCEPT !.hacks = HackSystem]
     IN /\ network = M.net
        /\ nodeHeap = M.node
        /\ pktHeap = M.pkt
        /\ hacks = M.hacks
  /\ lastTime = 0
  /\ LET s == startWhenReady(bgImage, skullImage)
     IN /\ remaining = s.remaining
        /\ listeners = s.listeners
        /\ rafPending = s.raf
        /\ stats = [frames |-> 0, resizes |-> 0, sends |-> 0,
                    starts |-> s.raf, repeats |-> 0]
  /\ call = [op |-> "init", from |-> "", to |-> ""]
  /\ frame = [bg |-> "none", packets |-> <<>>, skulls |-> {}, error |-> "none"]

-----------------------------------------------------------------------------
(* Inputs *)

\* draws of Math.random(): 0, 1/2 and 99/100
RLow == <<0, 1>>
RMid == <<1, 2>>
RHigh == <<99, 100>>
RTwoThirds == <<2, 3>>

\* the timestamp of the first frame, in ticks
FirstTimestamp == 1

\* one draw for every use of Math.random()
OneDraw ==
  [rainY |-> {RMid}, rainSpeed |-> {RLow},
   chunkTimer |-> {RLow}, chunkDir |-> {RHigh}, chunkSnippet |-> {RLow},
   chunkSpeed |-> {RHigh}, chunkY |-> {RMid}, chunkHold |-> {RLow},
   trafficTimer |-> {RHigh}, trafficTarget |-> {RLow}, trafficSpeed |-> {RHigh},
   cooldown |-> {RLow}, hackTarget |-> {RHigh}]

\* a frame whose timestamp is one of the steps DT after the previous one
Frame(DT, D, maxFrames) ==
  /\ stats.frames < maxFrames
  /\ \E d \in DT :
       loop(IF lastTime = 0 THEN FirstTimestamp ELSE lastTime + d, D)

-----------------------------------------------------------------------------
(* The network and the hack events under frames of 0 to 4 s, resizes and    *)
(* sendPacket calls                                                          *)

MaxFrames == 4
MaxResizes == 1
MaxSends == 1

NetSizes == {[width |-> 40, height |-> 20]}
NetSteps == {30, 240}
NetCalls == {<<"router", "desktop1">>, <<"router", "nowhere">>, <<"nowhere", "desktop1">>}
NetDraws ==
  [OneDraw EXCEPT !.trafficSpeed = {RTwoThirds}, !.cooldown = {RLow, RHigh},
                  !.hackTarget = {RLow, RHigh}]

Init == InitOf({[width |-> 20, height |-> 10]}, {"loaded"}, NetDraws)

NetFrame == Frame(NetSteps, NetDraws, MaxFrames)

NetResize ==
  /\ stats.resizes < MaxResizes
  /\ \E s \in NetSizes : resize(s.width, s.height, NetDraws)

NetSendPacket ==
  /\ stats.sends < MaxSends
  /\ \E c \in NetCalls : sendPacketCall(c[1], c[2])

Next == NetFrame \/ NetResize \/ NetSendPacket

Spec == Init /\ [][Next]_vars

-----------------------------------------------------------------------------
(* Claims about the network and the hack events *)

\* the nodes of the current layout that carry the identifier id
NodesNamed(id) == {n \in Range(network.nodes) : nodeHeap[n].id = id}

\* the active HackEvents
Events == Range(hacks.events)

\* C1: sendPacket(fromId, toId) appends exactly one packet, with t = 0 and a
\* link from the node named fromId to the node named toId, when both
\* identifiers name a node of the network, and changes nothing else; when
\* either names no node it leaves the packets, the nodes and the links as
\* they were.
C1_Effect ==
  call'.op = "sendPacket" =>
    /\ UNCHANGED <<nodeHeap, hacks, matrix, codeChunks, canvas>>
    /\ network'.nodes = network.nodes
    /\ network'.links = network.links
    /\ network'.normalTrafficTimer = network.normalTrafficTimer
    /\ IF NodesNamed(call'.from) # {} /\ NodesNamed(call'.to) # {}
       THEN /\ Len(network'.packets) = Len(network.packets) + 1
            /\ SubSeq(network'.packets, 1, Len(network.packets)) = network.packets
            /\ LET p == network'.packets[Len(network'.packets)]
               IN /\ p \notin DOMAIN pktHeap
                  /\ DOMAIN pktHeap' = DOMAIN pktHeap \cup {p}
                  /\ \A q \in DOMAIN pktHeap : pktHeap'[q] = pktHeap[q]
                  /\ pktHeap'[p].t = 0
                  /\ pktHeap'[p].link.from \in NodesNamed(call'.from)
                  /\ pktHeap'[p].link.to \in NodesNamed(call'.to)
       ELSE /\ network'.packets = network.packets
            /\ pktHeap' = pktHeap

C1_SendPacket == [][C1_Effect]_vars

\* a call with an identifier that names no node, made while packets are active
C1_Witness ==
  /\ call.op = "sendPacket"
  /\ call.to = "nowhere"
  /\ Len(network.packets) > 0

\* C2: every active packet, and every packet a frame has drawn, has
\* 0 <= t < 1 (a packet whose t has reached 1 is gone from the active packets
\* at the end of that update, and a hack packet enters them with t = 0), and
\* no packet's t ever decreases.
C2_ActiveInRange ==
  /\ \A p \in Range(network.packets) : pktHeap[p].t >= 0 /\ pktHeap[p].t < TOne
  /\ \A i \in 1..Len(frame.packets) :
       frame.packets[i].t >= 0 /\ frame.packets[i].t < TOne

C2_NonDecreasing ==
  \A p \in (DOMAIN pktHeap) \cap (DOMAIN pktHeap') : pktHeap'[p].t >= pktHeap[p].t

C2_PacketProgress == []C2_ActiveInRange /\ [][C2_NonDecreasing]_vars

\* a hack packet whose t has reached 1 and which has left the active packets,
\* in a frame that drew other packets
C2_Witness ==
  /\ call.op = "loop"
  /\ Len(frame.packets) > 0
  /\ \E e \in Events :
       /\ e.packet # Undefined
       /\ pktHeap[e.packet].t >= TOne
       /\ e.packet \notin Range(network.packets)

\* C3: the highlight of every node ever laid out lies in [0, 1].
C3_HighlightInRange ==
  \A n \in 1..Len(nodeHeap) :
    nodeHeap[n].hackedAlpha >= 0 /\ nodeHeap[n].hackedAlpha <= AlphaOne

\* after a hack event and a resize: a node of the former layout is still lit
\* and the hacker of the current layout has been lit and has decayed in part
C3_Witness ==
  /\ stats.resizes > 0
  /\ \E n \in 1..Len(nodeHeap) :
       n \notin Range(network.nodes) /\ nodeHeap[n].hackedAlpha = AlphaOne
  /\ \E n \in NodesNamed("hacker") :
       nodeHeap[n].hackedAlpha > 0 /\ nodeHeap[n].hackedAlpha < AlphaOne

\* C4: a HackEvent is in prepare exactly while the dt its updates have been
\* passed since its creation is at most 0.5 s, and is in launch at the end of
\* the first update that takes it past 0.5 s; the highlight of its hacker node
\* is 1.0 at the end of the tick that created it and whenever it is in prepare.
C4_InPrepare ==
  \A e \in Events :
    /\ (e.state = "prepare") <=> (e.age <= 30)
    /\ e.state = "prepare" => nodeHeap[e.hacker].hackedAlpha = AlphaOne

C4_Step ==
  \A e \in Range(hacks'.events) :
    LET before == {b \in Events : b.serial = e.serial}
    IN /\ before = {} =>
            /\ e.state \in {"prepare", "launch"}
            /\ nodeHeap'[e.hacker].hackedAlpha = AlphaOne
       /\ (e.age > 30 /\ \A b \in before : b.age <= 30) => e.state = "launch"

C4_Prepare == []C4_InPrepare /\ [][C4_Step]_vars

\* an event still in prepare in a later tick, 0.5 s after its creation
C4_Witness ==
  /\ stats.frames >= 2
  /\ \E e \in Events :
       /\ e.state = "prepare"
       /\ e.age = 30
       /\ nodeHeap[e.hacker].hackedAlpha = AlphaOne

-----------------------------------------------------------------------------
(* Frames at a fixed 60 Hz step, every cooldown draw 5 s *)

MaxFrames60 == 660

Draws60 == [OneDraw EXCEPT !.cooldown = {RLow}]

Init60 == InitOf({[width |-> 20, height |-> 10]}, {"loaded"}, Draws60)

Frame60 == Frame({1}, Draws60, MaxFrames60)

Spec60 == Init60 /\ [][Frame60]_vars

\* the time since the first frame, in ticks
Elapsed == lastTime - FirstTimestamp

\* 5 + 0.5 + 1000/260 + 1.5 s in ticks, rounded down: the last frame that is
\* not later than that
Deadline == ((5 * 60 + 30 + 90) * 260 + TOne) \div 260

\* C5: with every cooldown draw 5 s and frames 1/60 s apart, exactly one
\* HackEvent has gone through its whole cycle and been removed as done by the
\* elapsed time 5 + 0.5 + 1000/260 + 1.5 s.
C5_OneCompleted == Elapsed = Deadline => hacks.completed = 1

\* at that time the first event is done and the second, created at 5 s, is
\* still in impact
C5_Witness ==
  /\ Elapsed = Deadline
  /\ hacks.completed = 1
  /\ \E e \in Events : e.serial = 2 /\ e.state = "impact"

-----------------------------------------------------------------------------
(* The code chunks under frames of 5 s and 20 s and a resize *)

MaxChunkFrames == 4
MaxChunkResizes == 1

ChunkSizes == {[width |-> 20, height |-> 10], [width |-> 800, height |-> 10]}
ChunkSteps == {300, 1200}
ChunkDraws == [OneDraw EXCEPT !.chunkDir = {RLow, RHigh}]

InitChunks == InitOf(ChunkSizes, {"loaded"}, ChunkDraws)

ChunkFrame == Frame(ChunkSteps, ChunkDraws, MaxChunkFrames)

ChunkResize ==
  /\ stats.resizes < MaxChunkResizes
  /\ \E s \in ChunkSizes : resize(s.width, s.height, ChunkDraws)

NextChunks == ChunkFrame \/ ChunkResize

SpecChunks == InitChunks /\ [][NextChunks]_vars

\* opacity <= 0 and out of the surface by more than the 400 px margin
Faded(c) == c.alpha <= 0
OutOfBounds(c) == c.x < -400 * PX \/ c.x > (canvas.width + 400) * PX

\* C6: at the end of an update the chunks it removed all have opacity <= 0
\* and are out of bounds by more than 400 px, and no chunk that has both is
\* still active.
C6_Removal ==
  call.op = "loop" =>
    /\ \A c \in Range(codeChunks.removed) : Faded(c) /\ OutOfBounds(c)
    /\ \A c \in Range(codeChunks.chunks) : ~(Faded(c) /\ OutOfBounds(c))

\* an update that removed a chunk and kept a visible chunk that is out of
\* bounds and a faded chunk that is within bounds
C6_Witness ==
  /\ call.op = "loop"
  /\ codeChunks.removed # <<>>
  /\ \E c \in Range(codeChunks.chunks) : ~Faded(c) /\ OutOfBounds(c)
  /\ \E c \in Range(codeChunks.chunks) : Faded(c) /\ ~OutOfBounds(c)

-----------------------------------------------------------------------------
(* The rain under frames of 1 s and 4 s and resizes *)

MaxRainFrames == 4
MaxRainResizes == 1

RainSizes == {[width |-> 16, height |-> 10], [width |-> 17, height |-> 20],
              [width |-> 33, height |-> 10]}
RainSteps == {60, 240}
RainDraws == [OneDraw EXCEPT !.rainY = {RLow, RHigh}]

InitRain == InitOf(RainSizes, {"loaded"}, RainDraws)

RainFrame == Frame(RainSteps, RainDraws, MaxRainFrames)

RainResize ==
  /\ stats.resizes < MaxRainResizes
  /\ \E s \in RainSizes : resize(s.width, s.height, RainDraws)

NextRain == RainFrame \/ RainResize

SpecRain == InitRain /\ [][NextRain]_vars

\* C7: the y of every rain column lies in [-height, height + 100] for the
\* current surface height.
C7_ColumnInRange ==
  \A c \in Range(matrix.columns) :
    c.y >= -canvas.height * PX /\ c.y <= (canvas.height + 100) * PX

\* a column that has wrapped: two frames of at least 1 s at 50 px/s or more
\* take any column that has not wrapped below y = 0
C7_Witness ==
  /\ stats.resizes = 0
  /\ stats.frames >= 3
  /\ \E c \in Range(matrix.columns) : c.y < 0

\* C8: there are ceil(width / 16) rain columns, at x = 0, 16, 32, ...
C8_ColumnCount ==
  /\ Len(matrix.columns) = (canvas.width + 15) \div 16
  /\ \A i \in 1..Len(matrix.columns) :
       matrix.columns[i].x = 16 * (i - 1) /\ matrix.columns[i].x < canvas.width

\* after a resize to a width that is not a multiple of the spacing, and frames
C8_Witness ==
  /\ call.op = "loop"
  /\ stats.resizes > 0
  /\ canvas.width = 17
  /\ Len(matrix.columns) = 2

-----------------------------------------------------------------------------
(* The start: each image absent, still loading, loaded or failed when the   *)
(* script runs                                                               *)

MaxStartFrames == 3

StartImages == {"absent", "loading", "loaded", "broken"}
StartSteps == {30, 240}

InitStart == InitOf({[width |-> 20, height |-> 10]}, StartImages, OneDraw)

StartFrame == Frame(StartSteps, OneDraw, MaxStartFrames)

ImageLoad == \E name \in {"bgImage", "skullImage"} : imageEvent(name, "load")

ImageError == \E name \in {"bgImage", "skullImage"} : imageEvent(name, "error")

NextStart == StartFrame \/ ImageLoad \/ ImageError

SpecStart == InitStart /\ [][NextStart]_vars

\* C9: with the background image, the skull image or both absent (and no
\* image failed), no frame fails: draw() ends without an error, the
\* background is the solid fill when its image is absent, no skull is drawn
\* when the skull image is absent, and the next frame is requested.
C9_MissingAssetNoHalt ==
  ((bgImage = "absent" \/ skullImage = "absent")
     /\ "broken" \notin {bgImage, skullImage} /\ stats.frames > 0) =>
    /\ frame.error = "none"
    /\ bgImage = "absent" => frame.bg = "solid"
    /\ skullImage = "absent" => frame.skulls = {}
    /\ rafPending = 1

\* C10: the frame loop is started exactly once: not while a present image is
\* still loading, at once when none is, whether the images loaded or failed;
\* and from then on exactly one frame callback is pending.
C10_StartedOnce ==
  /\ stats.starts <= 1
  /\ stats.starts = 1 <=> "loading" \notin {bgImage, skullImage}
  /\ stats.starts = 0 => rafPending = 0 /\ stats.frames = 0
  /\ stats.starts = 1 => rafPending = 1

-----------------------------------------------------------------------------
(* Resizes that repeat, among frames *)

MaxTwiceFrames == 3
MaxTwiceResizes == 2

TwiceSizes == {[width |-> 20, height |-> 10], [width |-> 40, height |-> 20]}
TwiceSteps == {30, 240}
TwiceDraws == [OneDraw EXCEPT !.chunkTimer = {RLow, RHigh}]

InitTwice == InitOf(TwiceSizes, {"loaded"}, TwiceDraws)

TwiceFrame == Frame(TwiceSteps, TwiceDraws, MaxTwiceFrames)

TwiceResize ==
  /\ stats.resizes < MaxTwiceResizes
  /\ \E s \in TwiceSizes : resize(s.width, s.height, TwiceDraws)

NextTwice == TwiceFrame \/ TwiceResize

SpecTwice == InitTwice /\ [][NextTwice]_vars

\* what C11 compares: the rain columns' x, the nodes of the layout by value,
\* the static links by identifier, the active packets, the code chunks and
\* the hack events
ResizeView ==
  [columns |-> [i \in 1..Len(matrix.columns) |-> matrix.columns[i].x],
   nodes   |-> [i \in 1..Len(network.nodes) |-> nodeHeap[network.nodes[i]]],
   links   |-> [i \in 1..Len(network.links) |->
                  <<nodeHeap[network.links[i].from].id,
                    nodeHeap[network.links[i].to].id>>],
   packets |-> [i \in 1..Len(network.packets) |-> pktHeap[network.packets[i]]],
   chunks  |-> codeChunks.chunks,
   events  |-> hacks.events]

\* C11: handling a resize notification a second time, with the same width
\* and height as the one handled just before, leaves the rain columns' count
\* and x, the nodes' identifiers, positions and highlights, the static links,
\* the active packets, the code chunks and the hack events as the first left
\* them.
C11_Step ==
  (call.op = "resize" /\ call'.op = "resize" /\ canvas' = canvas) =>
    ResizeView' = ResizeView

C11_ResizeIdempotent == [][C11_Step]_vars

\* a resize repeated while packets, a hack event and a code chunk are active
C11_Witness ==
  /\ call.op = "resize"
  /\ stats.repeats > 0
  /\ Len(network.packets) > 0
  /\ hacks.events # <<>>
  /\ codeChunks.chunks # <<>>

-----------------------------------------------------------------------------
(* The hack events through their whole life, under frames of 0.5 s and 4 s  *)
(* and a resize                                                              *)

MaxHackFrames == 8
MaxHackResizes == 1

HackSizes == {[width |-> 40, height |-> 20]}
HackSteps == {30, 240}
HackDraws == [OneDraw EXCEPT !.cooldown = {RLow, RHigh}]

InitHack == InitOf({[width |-> 20, height |-> 10]}, {"loaded"}, HackDraws)

HackFrame == Frame(HackSteps, HackDraws, MaxHackFrames)

HackResize ==
  /\ stats.resizes < MaxHackResizes
  /\ \E s \in HackSizes : resize(s.width, s.height, HackDraws)

NextHack == HackFrame \/ HackResize

SpecHack == InitHack /\ [][NextHack]_vars

-----------------------------------------------------------------------------
(* Claims about the life of a hack event *)

\* the place of a state in prepare, launch, inFlight, impact, done
StateOrder(st) ==
  CASE st = "prepare" -> 1 [] st = "launch" -> 2 [] st = "inFlight" -> 3
    [] st = "impact" -> 4 [] st = "done" -> 5 [] OTHER -> 0

\* the event of the state before this step that an event of the state after
\* it continues, if any
Before(e) == {b \in Events : b.serial = e.serial}

\* the Packet objects this step constructed
NewPackets == (DOMAIN pktHeap') \ (DOMAIN pktHeap)

\* an event owns a packet from the call that handles launch on, never before
C12_Owns ==
  \A e \in Events :
    /\ e.state \in {"prepare", "launch", "inFlight", "impact"}
    /\ (e.packet = Undefined) <=> (e.state \in {"prepare", "launch"})

C12_Move ==
  /\ \A e \in Range(hacks'.events) :
       IF Before(e) = {}
       THEN e.state \in {"prepare", "launch"}
       ELSE \A b \in Before(e) :
              /\ StateOrder(e.state) - StateOrder(b.state) \in {0, 1}
              /\ b.packet # Undefined => e.packet = b.packet
              /\ (b.state = "launch" /\ call'.op = "loop") =>
                   /\ e.state = "inFlight"
                   /\ e.packet \in NewPackets
                   /\ e.packet \in Range(network'.packets)
                   /\ pktHeap'[e.packet] =
                        [link |-> [from |-> b.hacker, to |-> b.target],
                         t |-> 0, speed |-> 260, color |-> "#ff0066"]
                   /\ nodeHeap[b.hacker].id = "hacker"
  /\ \A b \in Events :
       (\A e \in Range(hacks'.events) : e.serial # b.serial) => b.state = "impact"
  /\ \A p \in NewPackets :
       pktHeap'[p].color = "#ff0066" =>
         Cardinality({b \in Events : b.state = "launch" /\
                        \E e \in Range(hacks'.events) :
                          e.serial = b.serial /\ e.packet = p}) = 1

\* C12: a HackEvent moves along prepare, launch, inFlight, impact, done one
\* state at a time; the update call that finds it in launch constructs one
\* packet from its hacker to its target (t = 0, speed 260, colour #ff0066),
\* appends it to the active packets and leaves the event inFlight; an event
\* owns no packet before that call and the same packet ever after, and no
\* other packet of that colour is constructed.
C12_Lifecycle == []C12_Owns /\ [][C12_Move]_vars

\* an event just launched after a resize and after an earlier event went
\* through all its states: its packet, at t = 0, is among the active packets
C12_Witness ==
  /\ call.op = "loop"
  /\ stats.resizes > 0
  /\ hacks.completed > 0
  /\ \E e \in Events :
       /\ e.state = "inFlight"
       /\ e.packet \in Range(network.packets)
       /\ pktHeap[e.packet].t = 0

\* the dt of the frame this step runs, in ticks (0 for the first frame)
StepDt == IF lastTime = 0 THEN 0 ELSE lastTime' - lastTime

\* an event in flight owns a packet with t < 1, an event in impact one with
\* t >= 1
C13_PacketDone ==
  \A e \in Events :
    /\ e.state = "inFlight" => pktHeap[e.packet].t < TOne
    /\ e.state = "impact" => pktHeap[e.packet].t >= TOne

C13_Step ==
  call'.op = "loop" =>
    /\ \A e \in Range(hacks'.events) : \A b \in Before(e) :
         /\ (b.state = "inFlight" /\ e.state = "impact") =>
              /\ pktHeap[b.packet].t < TOne
              /\ pktHeap'[e.packet].t >= TOne
              /\ e.timer = 0
              /\ nodeHeap'[e.target].hackedAlpha = AlphaOne
         /\ b.state = "impact" =>
              /\ e.state = "impact"
              /\ e.timer = b.timer + StepDt
              /\ e.timer <= 90
    /\ \A b \in Events :
         (\A e \in Range(hacks'.events) : e.serial # b.serial) =>
           b.state = "impact" /\ b.timer + StepDt > 90

\* C13: a HackEvent enters impact in the frame in which its packet's t first
\* reaches 1 (none is left inFlight with such a packet at the end of a frame)
\* and never before; at the end of that frame its target's highlight is 1.0
\* and its timer 0; it stays in impact while the dt passed to it since is at
\* most 1.5 s and is done, and removed, by the first update that takes it
\* past 1.5 s.
C13_Impact == []C13_PacketDone /\ [][C13_Step]_vars

\* an event in impact for exactly 1.5 s, not done
C13_Witness ==
  \E e \in Events : e.state = "impact" /\ e.timer = 90

-----------------------------------------------------------------------------
(* Claims about the layout across resizes *)

\* C14: the two endpoints of every active packet and the hacker and the
\* target of every active HackEvent are nodes of the network's current node
\* set.
C14_NodeIdentity ==
  /\ \A p \in Range(network.packets) :
       /\ pktHeap[p].link.from \in Range(network.nodes)
       /\ pktHeap[p].link.to \in Range(network.nodes)
  /\ \A e \in Events :
       /\ e.hacker \in Range(network.nodes)
       /\ e.target \in Range(network.nodes)

\* the nodes of the current layout without their positions
Unplaced(nodes, heap) ==
  [i \in 1..Len(nodes) |->
     [id |-> heap[nodes[i]].id, type |-> heap[nodes[i]].type,
      hackedAlpha |-> heap[nodes[i]].hackedAlpha]]

\* the static links as pairs of identifiers
LinkIds(links, heap) ==
  [i \in 1..Len(links) |-> <<heap[links[i].from].id, heap[links[i].to].id>>]

C15_Step ==
  call'.op = "resize" =>
    /\ Len(network'.nodes) = 9
    /\ Len(network'.links) = 8
    /\ Unplaced(network'.nodes, nodeHeap') = Unplaced(network.nodes, nodeHeap)
    /\ LinkIds(network'.links, nodeHeap') = LinkIds(network.links, nodeHeap)
    /\ network'.packets = network.packets
    /\ \A p \in Range(network.packets) : pktHeap'[p] = pktHeap[p]
    /\ network'.normalTrafficTimer = network.normalTrafficTimer

\* C15: a re-layout on resize changes node positions only: the 9 node
\* identifiers with their category tags and highlight values, the 8 static
\* links as identifier pairs, the active packets and the traffic countdown
\* are after it what they were before.
C15_OnlyPositions == [][C15_Step]_vars

-----------------------------------------------------------------------------
(* Frames that keep arriving, with dt > 0, while one of the first hack       *)
(* events is active; resizes in between                                      *)

MaxLiveFrames == 3
MaxLiveResizes == 1
LiveEvents == 1
LiveFrameCap == 12

LiveSizes == {[width |-> 40, height |-> 20]}
LiveSteps == {120, 240}
LiveDraws == [OneDraw EXCEPT !.cooldown = {RLow, RHigh}]

\* one of the first LiveEvents events is active
Tracked == \E e \in Events : e.serial <= LiveEvents

InitLive == InitOf({[width |-> 20, height |-> 10]}, {"loaded"}, LiveDraws)

LiveFrame ==
  Frame(LiveSteps, LiveDraws, IF Tracked THEN LiveFrameCap ELSE MaxLiveFrames)

LiveResize ==
  /\ stats.resizes < MaxLiveResizes
  /\ \E s \in LiveSizes : resize(s.width, s.height, LiveDraws)

NextLive == LiveFrame \/ LiveResize

\* a frame callback is requested and the next frame is due.  Only a
\* LiveFrame step counts a frame, and one can be taken whenever this holds.
FrameDue ==
  /\ rafPending > 0
  /\ stats.frames < (IF Tracked THEN LiveFrameCap ELSE MaxLiveFrames)
  /\ stats' = [stats EXCEPT !.frames = @ + 1]

\* the browser runs a requested frame callback
SpecLive == InitLive /\ [][NextLive]_vars /\ WF_stats(FrameDue)

\* C16: no active event is in state done at the end of an update, and every
\* HackEvent, once created, is eventually removed as done, whatever resizes
\* come in between.
C16_Terminates ==
  /\ [](\A e \in Events : e.state # "done")
  /\ \A n \in 1..LiveEvents :
       (\E e \in Events : e.serial = n) ~>
         (hacks.completed > 0 /\ \A e \in Events : e.serial # n)

\* the first event has been removed as done, a resize having come while it
\* was active, in a frame later than the frames that arrive anyway
C16_Witness ==
  /\ stats.frames > MaxLiveFrames
  /\ stats.resizes > 0
  /\ hacks.completed > 0
  /\ \E n \in 1..Len(nodeHeap) :
       n \notin Range(network.nodes) /\ nodeHeap[n].hackedAlpha = AlphaOne

-----------------------------------------------------------------------------
(* The cooldown of the hack system under frames of 0.5 s, 4 s and 20 s *)

MaxCoolFrames == 5

CoolSteps == {30, 240, 1200}
CoolDraws == [OneDraw EXCEPT !.cooldown = {RLow, RHigh}]

InitCool == InitOf({[width |-> 20, height |-> 10]}, {"loaded"}, CoolDraws)

CoolFrame == Frame(CoolSteps, CoolDraws, MaxCoolFrames)

SpecCool == InitCool /\ [][CoolFrame]_vars

\* after every update the cooldown is above 0 and below 15 s
C17_CooldownInRange ==
  stats.frames > 0 =>
    /\ hacks.cooldown > 0
    /\ hacks.cooldown < 15 * 60
    /\ hacks.created >= 1

C17_Step ==
  call'.op = "loop" =>
    /\ hacks'.created - hacks.created \in {0, 1}
    /\ Len(hacks'.events) <= Len(hacks.events) + 1
    /\ hacks.created = 0 => hacks'.created = 1
    /\ (hacks.created > 0 /\ hacks'.created > hacks.created) =>
         hacks.since + StepDt >= 5 * 60

\* C17: an update call of the hack system constructs at most one HackEvent,
\* whatever its dt; the first call constructs one; after every call the
\* cooldown is above 0 and below 15 s; and at least 5 s of dt are passed to
\* update between two calls that construct an event.
C17_Cooldown == []C17_CooldownInRange /\ [][C17_Step]_vars

\* each of the first three frames constructed one event, the later two with
\* a dt of 20 s, more than any cooldown
C17_Witness ==
  /\ stats.frames = 3
  /\ hacks.created = 3
  /\ lastTime - FirstTimestamp = 2400

-----------------------------------------------------------------------------
(* The choice of targets: three draws for the target of the background      *)
(* traffic and for the target of a hack                                      *)

MaxTargetFrames == 4
MaxTargetResizes == 1

TargetSizes == {[width |-> 40, height |-> 20]}
TargetSteps == {30, 240}
TargetDraws ==
  [OneDraw EXCEPT !.trafficTarget = {RLow, RMid, RHigh},
                  !.hackTarget = {RLow, RMid, RHigh}]

InitTarget == InitOf({[width |-> 20, height |-> 10]}, {"loaded"}, TargetDraws)

TargetFrame == Frame(TargetSteps, TargetDraws, MaxTargetFrames)

TargetResize ==
  /\ stats.resizes < MaxTargetResizes
  /\ \E s \in TargetSizes : resize(s.width, s.height, TargetDraws)

NextTarget == TargetFrame \/ TargetResize

SpecTarget == InitTarget /\ [][NextTarget]_vars

\* the identifiers of the seven nodes that are neither hacker nor router
Leaves == {"server", "desktop1", "desktop2", "laptop1", "phone", "iot", "cloud"}

\* the identifiers of the two ends of a packet
Ends(pk, heap) == <<heap[pk.link.from].id, heap[pk.link.to].id>>

C18_Targets ==
  /\ \A e \in Events :
       /\ e.target # Undefined
       /\ nodeHeap[e.target].id \in Leaves
  /\ \A n \in 1..Len(nodeHeap) :
       nodeHeap[n].id = "router" => nodeHeap[n].hackedAlpha = 0
  /\ \A p \in DOMAIN pktHeap :
       "hacker" \in {Ends(pktHeap[p], nodeHeap)[1], Ends(pktHeap[p], nodeHeap)[2]} =>
         /\ Ends(pktHeap[p], nodeHeap)[1] = "hacker"
         /\ Ends(pktHeap[p], nodeHeap)[2] \in Leaves
         /\ pktHeap[p].color = "#ff0066"
         /\ \E e \in Events : e.packet = p

C18_Step ==
  call'.op = "loop" =>
    /\ \A e \in Range(hacks'.events) : \A b \in Before(e) : e.target = b.target
    /\ LET green == {p \in NewPackets : pktHeap'[p].color = "#00ff88"}
       IN IF network.normalTrafficTimer - StepDt <= 0
          THEN /\ Cardinality(green) = 2
               /\ green \subseteq Range(network'.packets)
               /\ \E x \in Leaves :
                    {Ends(pktHeap'[p], nodeHeap') : p \in green} =
                      {<<"router", x>>, <<x, "router">>}
          ELSE green = {}

\* C18: the target of a HackEvent is one of the seven nodes that are neither
\* hacker nor router, from its construction on and unchanged; an expiry of the
\* traffic countdown adds two packets, router to X and X to router, for one
\* such node X, and no update adds such packets otherwise; the router's
\* highlight is always 0; a packet with the hacker at one end is a hack
\* packet that leaves the hacker.
C18_Choice == []C18_Targets /\ [][C18_Step]_vars

\* traffic with the last of the seven nodes while a hack packet flies to the
\* first of them
C18_Witness ==
  /\ \E p \in Range(network.packets) :
       Ends(pktHeap[p], nodeHeap) = <<"cloud", "router">>
  /\ \E p \in Range(network.packets) :
       /\ Ends(pktHeap[p], nodeHeap) = <<"hacker", "server">>
       /\ pktHeap[p].t > 0

-----------------------------------------------------------------------------
(* The code chunks through their fade, under frames of 0.5 s, 1.5 s and 5 s *)

MaxFadeFrames == 6

FadeSteps == {30, 90, 300}
FadeDraws ==
  [OneDraw EXCEPT !.chunkDir = {RLow, RHigh}, !.chunkHold = {RLow, RHigh}]

InitFade == InitOf({[width |-> 20, height |-> 10]}, {"loaded"}, FadeDraws)

FadeFrame == Frame(FadeSteps, FadeDraws, MaxFadeFrames)

SpecFade == InitFade /\ [][FadeFrame]_vars

\* the place of a state in fadeIn, hold, fadeOut
FadeOrder(st) ==
  CASE st = "fadeIn" -> 1 [] st = "hold" -> 2 [] st = "fadeOut" -> 3
    [] OTHER -> 0

\* opacity 0.8
Opaque == (8 * ChunkAlphaOne) \div 10

\* the chunks after an update, kept or removed
Updated == Range(codeChunks'.chunks) \cup Range(codeChunks'.removed)

C19_Opacity ==
  \A c \in Range(codeChunks.chunks) \cup Range(codeChunks.removed) :
    /\ FadeOrder(c.state) > 0
    /\ c.alpha <= Opaque
    /\ c.state = "hold" => c.alpha = Opaque

C19_Step ==
  call'.op = "loop" =>
    /\ \A b \in Range(codeChunks.chunks) : \E c \in Updated : c.serial = b.serial
    /\ \A c \in Updated :
         LET before == {b \in Range(codeChunks.chunks) : b.serial = c.serial}
             start == IF c.direction = 1 THEN -300 * PX
                      ELSE (canvas.width + 300) * PX
         IN IF before = {}
            THEN /\ c.state \in {"fadeIn", "hold"}
                 /\ c.direction \in {1, -1}
                 /\ c.x = start + c.direction * c.speed * StepDt
            ELSE \A b \in before :
                   /\ FadeOrder(c.state) - FadeOrder(b.state) \in {0, 1}
                   /\ c.direction = b.direction
                   /\ c.x = b.x + b.direction * b.speed * StepDt
                   /\ b.state # "fadeIn" => c.alpha <= b.alpha

\* C19: a CodeChunk moves along fadeIn, hold, fadeOut one state at a time;
\* its opacity is never above 0.8, is 0.8 whenever it is in hold and does not
\* grow once it has left fadeIn; every update adds direction * speed * dt to
\* its x, in every state, and its direction never changes.
C19_Fade == []C19_Opacity /\ [][C19_Step]_vars

\* a chunk moving left that is fading out, partly faded, while a later chunk
\* is in hold
C19_Witness ==
  /\ \E c \in Range(codeChunks.chunks) :
       c.state = "fadeOut" /\ c.alpha > 0 /\ c.alpha < Opaque /\ c.direction = -1
  /\ \E c \in Range(codeChunks.chunks) : c.state = "hold" /\ c.serial > 1

-----------------------------------------------------------------------------
(* Frames that keep arriving, with dt > 0, while one of the first code       *)
(* chunks is active; a resize to a wider surface in between                  *)

MaxDriftFrames == 3
MaxDriftResizes == 1
DriftChunks == 1
DriftFrameCap == 6

DriftSizes == {[width |-> 400, height |-> 10]}
DriftSteps == {300, 1200}
DriftDraws == [OneDraw EXCEPT !.chunkDir = {RLow, RHigh}]

\* one of the first DriftChunks chunks is active
Drifting == \E c \in Range(codeChunks.chunks) : c.serial <= DriftChunks

InitDrift == InitOf({[width |-> 20, height |-> 10]}, {"loaded"}, DriftDraws)

DriftFrame ==
  Frame(DriftSteps, DriftDraws, IF Drifting THEN DriftFrameCap ELSE MaxDriftFrames)

DriftResize ==
  /\ stats.resizes < MaxDriftResizes
  /\ \E s \in DriftSizes : resize(s.width, s.height, DriftDraws)

NextDrift == DriftFrame \/ DriftResize

\* a frame callback is requested and the next frame is due.  Only a
\* DriftFrame step counts a frame, and one can be taken whenever this holds.
DriftDue ==
  /\ rafPending > 0
  /\ stats.frames < (IF Drifting THEN DriftFrameCap ELSE MaxDriftFrames)
  /\ stats' = [stats EXCEPT !.frames = @ + 1]

\* the browser runs a requested frame callback
SpecDrift == InitDrift /\ [][NextDrift]_vars /\ WF_stats(DriftDue)

\* C20: every CodeChunk, once spawned, is eventually removed: in fadeOut,
\* with opacity <= 0, out of the surface by more than the 400 px margin on
\* the side it moves to.
C20_Removed ==
  \A n \in 1..DriftChunks :
    (\E c \in Range(codeChunks.chunks) : c.serial = n) ~>
      (/\ \A c \in Range(codeChunks.chunks) : c.serial # n
       /\ \E c \in Range(codeChunks.removed) :
            /\ c.serial = n
            /\ c.state = "fadeOut"
            /\ c.alpha <= 0
            /\ IF c.direction = 1 THEN c.x > (canvas.width + 400) * PX
               ELSE c.x < -400 * PX)

\* the first chunk has just been removed, a resize to the wider surface
\* having come while it was active, in a frame later than the frames that
\* arrive anyway
C20_Witness ==
  /\ stats.frames > MaxDriftFrames
  /\ stats.resizes > 0
  /\ \E c \in Range(codeChunks.removed) :
       c.serial = 1 /\ c.direction = 1 /\ c.x > (400 + 400) * PX

====
